---- MODULE Spec2Model ----
(***************************************************************************)
(* Model of src/target/source/source_module.cc: the metadata-module        *)
(* aggregation driver (CreateMetadataModule), the C-source metadata        *)
(* wrapper (CreateCSourceMetadataModule, CSourceMetadataModuleNode) and    *)
(* the SaveToFile methods of the source leaves.                            *)
(*                                                                         *)
(* A runtime::Module handle is a record; its field addr is the identity of *)
(* the node it points to.  Generated text (the std::stringstream code_) is *)
(* the sequence of chunks streamed into it, one record per statement of    *)
(* the generator.                                                          *)
(***************************************************************************)
EXTENDS Integers, Sequences, FiniteSets, TLC

\* ------------------------------------------------------------------ bounds
\* Longest input Array<Module> handed to an aggregation call.
MaxMods == 3
\* Number of SaveToFile calls in one run of the save specification.
MaxSaves == 2

\* ---------------------------------------------------------------- text
NoStrings == << >>

\* One piece of text streamed into a std::stringstream or held in a
\* std::string: the statement that produced it and the names it embeds.
\* A std::string is the sequence of its chunks; its length() is 0 exactly
\* when the sequence is empty.
Chunk(kind, arg) == [kind |-> kind, arg |-> arg]
EmptyText == << >>
Text(s) == << Chunk("literal", << s >>) >>

\* ------------------------------------------------------------- module nodes

\* A node of any class, as the fields the code of this file reads.
\*   exposes: the names a node outside this file answers in GetFunction.
Node(cls, type_key, exposes, symbol, const_vars, func_names, code, fmt) ==
  [cls |-> cls, type_key |-> type_key, exposes |-> exposes, symbol |-> symbol,
   const_vars |-> const_vars, func_names |-> func_names,
   code |-> code, fmt |-> fmt, params |-> << >>, sym_metadata |-> << >>,
   imports |-> << >>, addr |-> 0]

\* SourceModuleCreate(code, fmt): type_key() is "source".
SourceModuleCreate(code, fmt) ==
  Node("SourceModuleNode", "source", {}, "", NoStrings, NoStrings, code, fmt)

\* CSourceModuleCreate(code, fmt, func_names, symbol, const_vars): type_key() is "c".
CSourceModuleCreate(code, fmt, func_names, symbol, const_vars) ==
  Node("CSourceModuleNode", "c", {}, symbol, const_vars, func_names, code, fmt)

\* DeviceSourceModuleCreate(data, fmt, fmap, type_key, fget_source); fmap is
\* kept in the field func_names (the keys of the map).
DeviceSourceModuleCreate(data, fmt, fmap, type_key) ==
  Node("DeviceSourceModuleNode", type_key, {}, "", NoStrings, fmap, data, fmt)

\* A module implemented outside this file (an LLVM module, a JSON runtime
\* module, ...): it answers exactly the names in exposes.
ExternalModule(type_key, exposes, symbol, const_vars, func_names) ==
  Node("ExternalModuleNode", type_key, exposes, symbol, const_vars, func_names, EmptyText, "")

\* ------------------------------------------------------------ GetFunction
\* The three outcomes of mod.GetFunction(name): LOG(FATAL) (an exception),
\* PackedFunc(nullptr), or a callable PackedFunc.
FATAL == "FATAL"
nullptr == "nullptr"
PackedFunc == "PackedFunc"

SourceModuleNode_GetFunction(mod, name) == FATAL

CSourceModuleNode_GetFunction(mod, name) ==
  IF name = "get_symbol" THEN PackedFunc
  ELSE IF name = "get_const_vars" THEN PackedFunc
  ELSE IF name = "get_func_names" THEN PackedFunc
  ELSE nullptr

CSourceMetadataModuleNode_GetFunction(mod, name) == nullptr

DeviceSourceModuleNode_GetFunction(mod, name) == FATAL

GetFunction(mod, name) ==
  CASE mod.cls = "SourceModuleNode" -> SourceModuleNode_GetFunction(mod, name)
    [] mod.cls = "CSourceModuleNode" -> CSourceModuleNode_GetFunction(mod, name)
    [] mod.cls = "CSourceMetadataModuleNode" -> CSourceMetadataModuleNode_GetFunction(mod, name)
    [] mod.cls = "DeviceSourceModuleNode" -> DeviceSourceModuleNode_GetFunction(mod, name)
    [] OTHER -> IF name \in mod.exposes THEN PackedFunc ELSE nullptr


\* ------------------------------------------------------ CSourceMetadataModuleNode
\* target::GenerateFuncRegistryNames(func_names), then support::StrEscape:
\* the escaped name blob of the registry, which encodes the names in order.
\* The blob is the count of names, then each name followed by a NUL.
RECURSIVE NulTerminated(_)
NulTerminated(names) ==
  IF names = << >> THEN << >>
  ELSE << Head(names), "\\0" >> \o NulTerminated(Tail(names))

GenerateFuncRegistryNames(func_names) ==
  << ToString(Len(func_names)) >> \o NulTerminated(func_names)

\* The statements of the generated text, each named by how it starts.
IncludeLine == "#include <tvm/runtime/crt/module.h>"
ExternDecl == "extern \"C\" TVM_DLL int32_t"
FuncArrayOpen == "static TVMBackendPackedCFunc _tvm_func_array[] = {"
FuncArrayEntry == "    (TVMBackendPackedCFunc)"
FuncArrayClose == "};"
FuncRegistry == "static const TVMFuncRegistry _tvm_func_registry = {"
SystemLibModule == "static const TVMModule _tvm_system_lib = {"
SystemLibEntryPoint == "const TVMModule* TVMSystemLibEntryPoint(void) {"
Terminator == ";"

\* CreateFuncRegistry filling the pointer array from the last name to the first.
CreateFuncRegistry_ArrayReversed(func_names) ==
     << Chunk(IncludeLine, NoStrings) >>
  \o [k \in 1..Len(func_names) |-> Chunk(ExternDecl, << func_names[k] >>)]
  \o << Chunk(FuncArrayOpen, NoStrings) >>
  \o [k \in 1..Len(func_names) |->
        Chunk(FuncArrayEntry, << func_names[Len(func_names) + 1 - k] >>)]
  \o << Chunk(FuncArrayClose, NoStrings) >>
  \o << Chunk(FuncRegistry, GenerateFuncRegistryNames(func_names)) >>

\* CSourceMetadataModuleNode::CreateFuncRegistry: what it appends to code_.
CreateFuncRegistry(func_names) ==
     << Chunk(IncludeLine, NoStrings) >>
  \o [k \in 1..Len(func_names) |-> Chunk(ExternDecl, << func_names[k] >>)]
  \o << Chunk(FuncArrayOpen, NoStrings) >>
  \o [k \in 1..Len(func_names) |-> Chunk(FuncArrayEntry, << func_names[k] >>)]
  \o << Chunk(FuncArrayClose, NoStrings) >>
  \o << Chunk(FuncRegistry, GenerateFuncRegistryNames(func_names)) >>

\* CSourceMetadataModuleNode::GenerateCrtSystemLib: what it appends to code_.
GenerateCrtSystemLib ==
  << Chunk(SystemLibModule, NoStrings), Chunk(SystemLibEntryPoint, NoStrings) >>

\* The attribute read with value_or(Bool(true)).
SystemLib_DefaultTrue(target) == IF target = "unset" THEN TRUE ELSE target = "true"

\* target_->GetAttr<Bool>("system-lib").value_or(Bool(false)); the attribute
\* is "unset", "true" or "false".
SystemLib(target) == IF target = "unset" THEN FALSE ELSE target = "true"

\* CSourceMetadataModuleNode::CreateSource: the final content of code_.
CreateSource(target, func_names) ==
  (IF SystemLib(target) /\ func_names # NoStrings
     THEN CreateFuncRegistry(func_names) \o GenerateCrtSystemLib
     ELSE EmptyText)
  \o << Chunk(Terminator, NoStrings) >>

\* The constructor CSourceMetadataModuleNode(func_names, fmt, target), which
\* runs CreateSource(); type_key() is "c".
CSourceMetadataModuleNode(func_names, fmt, target) ==
  Node("CSourceMetadataModuleNode", "c", {}, "", NoStrings, func_names,
       CreateSource(target, func_names), fmt)

\* runtime::Module::Import(other): other becomes the last import.
Import(mod, other) == [mod EXCEPT !.imports = Append(@, other)]

RECURSIVE ImportAll(_, _)
ImportAll(mod, others) ==
  IF others = << >> THEN mod
  ELSE ImportAll(Import(mod, Head(others)), Tail(others))

\* The loop of CreateCSourceMetadataModule that collects func_names.
RECURSIVE CollectFuncNames(_)
CollectFuncNames(mods) ==
  IF mods = << >> THEN NoStrings
  ELSE (IF GetFunction(Head(mods), "get_func_names") # nullptr
          THEN Head(mods).func_names ELSE NoStrings)
       \o CollectFuncNames(Tail(mods))

\* Whether a GetFunction call of CreateCSourceMetadataModule raises.
CollectThrows(mods) ==
  \E k \in 1..Len(mods) : GetFunction(mods[k], "get_func_names") = FATAL

\* CreateCSourceMetadataModule(modules, target), when no lookup raises.
CreateCSourceMetadataModule(mods, target) ==
  ImportAll(CSourceMetadataModuleNode(CollectFuncNames(mods), "cc", target), mods)

\* ------------------------------------------------------ CreateMetadataModule
\* DSOExportable that forgets the "llvm" kind.
DSOExportable_OnlyC(mod) == mod.type_key = "c"

\* The lambda DSOExportable.
DSOExportable(mod) == mod.type_key = "llvm" \/ mod.type_key = "c"

\* The condition pf_sym != nullptr && pf_var != nullptr, when neither lookup raises.
HasSymbolProbe(mod) ==
  GetFunction(mod, "get_symbol") # nullptr /\ GetFunction(mod, "get_const_vars") # nullptr

\* Whether one of the two lookups of the loop body raises.
ProbeThrows(mod) ==
  GetFunction(mod, "get_symbol") = FATAL \/ GetFunction(mod, "get_const_vars") = FATAL

\* The loop body's test with the negation of variables.empty() dropped.
GroupOf_EmptyIsBinary(mod) ==
  IF GetFunction(mod, "get_symbol") # nullptr /\ GetFunction(mod, "get_const_vars") # nullptr
    THEN IF mod.const_vars = NoStrings \/ mod.type_key \notin {"llvm", "c"}
           THEN "binary" ELSE "csource"
    ELSE "csource"

\* The list a module is pushed to by the loop body: "binary" for
\* binary_metadata_modules, "csource" for csource_metadata_modules.
GroupOf(mod) ==
  IF HasSymbolProbe(mod)
    THEN IF mod.const_vars # NoStrings \/ ~DSOExportable(mod) THEN "binary" ELSE "csource"
    ELSE "csource"

\* The map filled only for symbols that need constants.
SetSymMetadata_SkipEmpty(sym, symbol, arrays) ==
  IF arrays = NoStrings THEN sym
  ELSE [s \in (DOMAIN sym) \cup {symbol} |-> IF s = symbol THEN arrays ELSE sym[s]]

\* sym_metadata[symbol] = arrays
SetSymMetadata(sym, symbol, arrays) ==
  [s \in (DOMAIN sym) \cup {symbol} |-> IF s = symbol THEN arrays ELSE sym[s]]

\* runtime::MetadataModuleCreate(params, sym_metadata): the binary metadata
\* wrapper, which holds the constant table and the symbol map.
MetadataModuleCreate(prm, sym) ==
  [Node("MetadataModuleNode", "metadata", {}, "", NoStrings, NoStrings, EmptyText, "")
     EXCEPT !.params = prm, !.sym_metadata = sym]

\* The tail of CreateMetadataModule importing the binary modules before c_meta_mod.
WrapModules_BinaryFirst(prm, sym, csource, binary, target) ==
  IF binary # << >>
    THEN Import(ImportAll(MetadataModuleCreate(prm, sym), binary),
                CreateCSourceMetadataModule(csource, target))
    ELSE CreateCSourceMetadataModule(csource, target)

\* The tail of CreateMetadataModule, after the loop: the module it returns.
WrapModules(prm, sym, csource, binary, target) ==
  LET c_meta_mod == CreateCSourceMetadataModule(csource, target)
  IN  IF binary # << >>
        THEN ImportAll(Import(MetadataModuleCreate(prm, sym), c_meta_mod), binary)
        ELSE c_meta_mod

\* ------------------------------------------------------------------ inputs
\* The modules a caller may hand in.
ModuleUniverse ==
  { CSourceModuleCreate(Text("int add_1();"), "c", << "add_1" >>, "k1", NoStrings),
    CSourceModuleCreate(Text("int conv_1();"), "c", << "conv_1" >>, "k2", << "w0" >>),
    CSourceModuleCreate(Text("int k1();"), "c", NoStrings, "k1", << "w0" >>),
    CSourceModuleCreate(Text("int k2();"), "c", << "conv_1", "mul_1" >>, "k2", NoStrings),
    ExternalModule("llvm", {"get_symbol", "get_const_vars"}, "k3", NoStrings, NoStrings),
    ExternalModule("json", {"get_symbol", "get_const_vars"}, "k3", NoStrings, NoStrings),
    ExternalModule("json", {"get_symbol", "get_func_names"}, "k1", NoStrings, << "run_1" >>),
    SourceModuleCreate(Text("__global__"), "cuda"),
    DeviceSourceModuleCreate(Text("__kernel"), "cl", << "k1" >>, "opencl"),
    CSourceMetadataModuleNode(NoStrings, "cc", "unset") }

Targets == {"unset", "true", "false"}

ParamTables == { << >>, [n \in {"w0"} |-> "NDArray"] }

\* An Array<Module> of distinct nodes: the k-th handle points to node k.
ModuleArrays ==
  UNION { { [k \in 1..n |-> [f[k] EXCEPT !.addr = k]] : f \in [1..n -> ModuleUniverse] }
          : n \in 0..MaxMods }

\* ------------------------------------------------------------------- state
VARIABLES
  modules,                  \* the argument modules of the call
  params,                   \* the argument params
  target,                   \* the "system-lib" attribute of the argument target
  pc,                       \* "idle", "loop" (in the loop of CreateMetadataModule),
                            \* "returned" or "aborted" (an exception left the call)
  entry,                    \* the function called
  i,                        \* the loop's position in modules
  sym_metadata,
  csource_metadata_modules,
  binary_metadata_modules,
  ret,                      \* the module returned
  err,                      \* the message of the fatal error
  fs,                       \* the files written, in order
  save                      \* the SaveToFile calls made, in order

aggVars == << modules, params, target, pc, entry, i, sym_metadata,
              csource_metadata_modules, binary_metadata_modules, ret, err >>
saveVars == << fs, save >>
vars == << aggVars, saveVars >>

NoModule == Node("null", "", {}, "", NoStrings, NoStrings, EmptyText, "")
DuplicatedSymbol == "Found duplicated symbol"
CannotExecute == "Source module cannot execute"

Init ==
  /\ modules \in ModuleArrays
  /\ params \in ParamTables
  /\ target \in Targets
  /\ pc = "idle"
  /\ entry = "none"
  /\ i = 0
  /\ sym_metadata = << >>
  /\ csource_metadata_modules = << >>
  /\ binary_metadata_modules = << >>
  /\ ret = NoModule
  /\ err = "none"
  /\ fs = << >>
  /\ save = << >>

\* CreateMetadataModule is entered: the locals are declared.
EnterCreateMetadataModule ==
  /\ pc = "idle"
  /\ pc' = "loop"
  /\ entry' = "CreateMetadataModule"
  /\ i' = 1
  /\ UNCHANGED << modules, params, target, sym_metadata, csource_metadata_modules,
                  binary_metadata_modules, ret, err, saveVars >>

\* One iteration of the loop over modules.
ClassifyModule ==
  /\ pc = "loop"
  /\ i <= Len(modules)
  /\ LET mod == modules[i] IN
       IF ProbeThrows(mod)
         THEN /\ pc' = "aborted"
              /\ err' = CannotExecute
              /\ UNCHANGED << i, sym_metadata, csource_metadata_modules,
                              binary_metadata_modules >>
       ELSE IF HasSymbolProbe(mod) /\ mod.symbol \in DOMAIN sym_metadata
         THEN /\ pc' = "aborted"
              /\ err' = DuplicatedSymbol
              /\ UNCHANGED << i, sym_metadata, csource_metadata_modules,
                              binary_metadata_modules >>
       ELSE /\ sym_metadata' = IF HasSymbolProbe(mod)
                                 THEN SetSymMetadata(sym_metadata, mod.symbol, mod.const_vars)
                                 ELSE sym_metadata
            /\ binary_metadata_modules' =
                 IF GroupOf(mod) = "binary" THEN Append(binary_metadata_modules, mod)
                 ELSE binary_metadata_modules
            /\ csource_metadata_modules' =
                 IF GroupOf(mod) = "csource" THEN Append(csource_metadata_modules, mod)
                 ELSE csource_metadata_modules
            /\ i' = i + 1
            /\ UNCHANGED << pc, err >>
  /\ UNCHANGED << modules, params, target, entry, ret, saveVars >>

\* After the loop: the wrappers are built and the root is returned.
ReturnMetadataModule ==
  /\ pc = "loop"
  /\ i > Len(modules)
  /\ IF CollectThrows(csource_metadata_modules)
       THEN pc' = "aborted" /\ err' = CannotExecute /\ UNCHANGED ret
       ELSE /\ pc' = "returned"
            /\ ret' = WrapModules(params, sym_metadata, csource_metadata_modules,
                                  binary_metadata_modules, target)
            /\ UNCHANGED err
  /\ UNCHANGED << modules, params, target, entry, i, sym_metadata,
                  csource_metadata_modules, binary_metadata_modules, saveVars >>

\* The global "runtime.CreateCSourceMetadataModule", called on modules.
CallCreateCSourceMetadataModule ==
  /\ pc = "idle"
  /\ entry' = "CreateCSourceMetadataModule"
  /\ IF CollectThrows(modules)
       THEN pc' = "aborted" /\ err' = CannotExecute /\ UNCHANGED ret
       ELSE /\ pc' = "returned"
            /\ ret' = CreateCSourceMetadataModule(modules, target)
            /\ UNCHANGED err
  /\ UNCHANGED << modules, params, target, i, sym_metadata,
                  csource_metadata_modules, binary_metadata_modules, saveVars >>

\* -------------------------------------------------------------- SaveToFile
\* A file name is its stem and its extension (the text after the last '.';
\* "" when the name has no '.').
FileName(stem, ext) == [stem |-> stem, ext |-> ext]

\* runtime::GetFileFormat(file_name, format): the format given, or the file
\* name's extension when the format given is empty.
GetFileFormat(file_name, format) == IF format = "" THEN file_name.ext ELSE format

\* runtime::GetMetaFilePath(file_name): the extension replaced.
GetMetaFilePath(file_name) == FileName(file_name.stem, "tvm_meta.json")

\* One write of SaveBinaryToFile or SaveMetaDataToFile.
Write(path, data) == [path |-> path, data |-> data]

\* The outcome of a SaveToFile call: its status and the writes it made.
Saved(writes) == [status |-> "ok", writes |-> writes]
CheckFailed(msg) == [status |-> msg, writes |-> << >>]
FormatMismatch == "Can only save to format="
EmptyCode == "Check failed: length != 0"

\* SaveToFile without the ICHECK_EQ of its else branch.
CSourceModuleNode_SaveToFile_NoCheck(node, file_name, format) ==
  IF GetFileFormat(file_name, format) = "cc"
    THEN IF node.code = EmptyText THEN CheckFailed(EmptyCode)
         ELSE Saved(<< Write(file_name, node.code) >>)
    ELSE Saved(<< >>)

CSourceModuleNode_SaveToFile(node, file_name, format) ==
  LET fmt == GetFileFormat(file_name, format) IN
  IF fmt = "cc"
    THEN IF node.code = EmptyText THEN CheckFailed(EmptyCode)
         ELSE Saved(<< Write(file_name, node.code) >>)
    ELSE IF fmt # node.fmt THEN CheckFailed(FormatMismatch)
         ELSE Saved(<< >>)

CSourceMetadataModuleNode_SaveToFile(node, file_name, format) ==
  LET fmt == GetFileFormat(file_name, format)
      code_str == node.code
  IN  IF fmt = "cc"
        THEN IF code_str = EmptyText THEN CheckFailed(EmptyCode)
             ELSE Saved(<< Write(file_name, code_str) >>)
        ELSE IF fmt # node.fmt THEN CheckFailed(FormatMismatch)
             ELSE Saved(<< >>)

\* SaveToFile writing the payload before the sidecar.
DeviceSourceModuleNode_SaveToFile_PayloadFirst(node, file_name, format) ==
  IF GetFileFormat(file_name, format) # node.fmt THEN CheckFailed(FormatMismatch)
  ELSE Saved(<< Write(file_name, node.code),
                Write(GetMetaFilePath(file_name), << Chunk("tvm_meta", node.func_names) >>) >>)

DeviceSourceModuleNode_SaveToFile(node, file_name, format) ==
  LET fmt == GetFileFormat(file_name, format) IN
  IF fmt # node.fmt THEN CheckFailed(FormatMismatch)
  ELSE LET meta_file == GetMetaFilePath(file_name) IN
       Saved(<< Write(meta_file, << Chunk("tvm_meta", node.func_names) >>),
                Write(file_name, node.code) >>)

\* The nodes SaveToFile is called on.
CSourceNodes ==
  { CSourceModuleCreate(Text("int add_1();"), "c", << "add_1" >>, "k1", NoStrings),
    CSourceModuleCreate(Text("int add_1();"), "cc", << "add_1" >>, "k1", NoStrings),
    CSourceModuleCreate(EmptyText, "c", NoStrings, "k2", NoStrings) }
CSourceMetadataNodes ==
  { CSourceMetadataModuleNode(<< "add_1" >>, "cc", "true"),
    CSourceMetadataModuleNode(NoStrings, "cc", "unset") }
DeviceSourceNodes ==
  { DeviceSourceModuleCreate(Text("__kernel"), "cl", << "k1" >>, "opencl"),
    DeviceSourceModuleCreate(Text("int k1();"), "cc", << "k1" >>, "c_device"),
    DeviceSourceModuleCreate(EmptyText, "cl", NoStrings, "opencl") }
FileNames == { FileName("out", "cc"), FileName("out", "cl") }
Formats == { "", "cc", "c", "bin" }

\* The record of a SaveToFile call: its receiver, arguments and outcome.
SaveCall(node, file_name, format, outcome) ==
  [node |-> node, file_name |-> file_name, format |-> format,
   status |-> outcome.status, nwrites |-> Len(outcome.writes)]

SaveCSourceModule ==
  \E node \in CSourceNodes, file_name \in FileNames, format \in Formats :
     LET outcome == CSourceModuleNode_SaveToFile(node, file_name, format) IN
     /\ Len(save) < MaxSaves
     /\ fs' = fs \o outcome.writes
     /\ save' = Append(save, SaveCall(node, file_name, format, outcome))
     /\ UNCHANGED aggVars

SaveCSourceMetadataModule ==
  \E node \in CSourceMetadataNodes, file_name \in FileNames, format \in Formats :
     LET outcome == CSourceMetadataModuleNode_SaveToFile(node, file_name, format) IN
     /\ Len(save) < MaxSaves
     /\ fs' = fs \o outcome.writes
     /\ save' = Append(save, SaveCall(node, file_name, format, outcome))
     /\ UNCHANGED aggVars

SaveDeviceSourceModule ==
  \E node \in DeviceSourceNodes, file_name \in FileNames, format \in Formats :
     LET outcome == DeviceSourceModuleNode_SaveToFile(node, file_name, format) IN
     /\ Len(save) < MaxSaves
     /\ fs' = fs \o outcome.writes
     /\ save' = Append(save, SaveCall(node, file_name, format, outcome))
     /\ UNCHANGED aggVars

Next ==
  \/ EnterCreateMetadataModule
  \/ ClassifyModule
  \/ ReturnMetadataModule
  \/ CallCreateCSourceMetadataModule

Spec == Init /\ [][Next]_vars

\* The save specification: SaveToFile calls on leaves, no aggregation call.
InitSave ==
  /\ Init
  /\ modules = << >>
  /\ params = << >>
  /\ target = "unset"

NextSave ==
  \/ SaveCSourceModule
  \/ SaveCSourceMetadataModule
  \/ SaveDeviceSourceModule

SaveSpec == InitSave /\ [][NextSave]_vars

\* ================================================================ properties
\* Terms of the statements below.
Finished == pc \in {"returned", "aborted"}
ViaCreateMetadataModule == entry = "CreateMetadataModule"

\* The artifact answers both get_symbol and get_const_vars.
ExposesProbe(m) ==
  GetFunction(m, "get_symbol") = PackedFunc /\ GetFunction(m, "get_const_vars") = PackedFunc
ExposesFuncNames(m) == GetFunction(m, "get_func_names") = PackedFunc
DirectlyLinkable(m) == m.type_key \in {"llvm", "c"}

\* The classification rule, as stated.
BinaryByRule(m) == ExposesProbe(m) /\ (m.const_vars # NoStrings \/ ~DirectlyLinkable(m))
SourceByRule(m) == ~BinaryByRule(m)

Occurrences(list, a) == Cardinality({ k \in DOMAIN list : list[k].addr = a })

\* Two input artifacts report the same exported symbol.
DuplicateSymbols ==
  \E k, l \in DOMAIN modules :
     k < l /\ ExposesProbe(modules[k]) /\ ExposesProbe(modules[l])
           /\ modules[k].symbol = modules[l].symbol
AllConstantsEmpty ==
  \A k \in DOMAIN modules : ExposesProbe(modules[k]) => modules[k].const_vars = NoStrings

\* C1: every artifact the loop of CreateMetadataModule has passed is in
\* exactly one of the two groups, once: in the binary group iff it exposes
\* the probe and (its constant list is non-empty or its kind is not "llvm"
\* or "c"), in the source group otherwise.
C1_ClassificationRule ==
  ViaCreateMetadataModule =>
    \A k \in DOMAIN modules : k < i =>
       /\ Occurrences(binary_metadata_modules, k) = (IF BinaryByRule(modules[k]) THEN 1 ELSE 0)
       /\ Occurrences(csource_metadata_modules, k) = (IF BinaryByRule(modules[k]) THEN 0 ELSE 1)

\* A completed call that put a "c" artifact with constants and a non-linkable
\* artifact without constants in the binary group, and an artifact without
\* the probe and a linkable one with it in the source group.
C1_Witness ==
  /\ pc = "returned" /\ ViaCreateMetadataModule
  /\ \E k \in DOMAIN binary_metadata_modules :
        LET m == binary_metadata_modules[k] IN
        \/ m.type_key = "c" /\ m.const_vars # NoStrings
        \/ m.type_key = "json" /\ m.const_vars = NoStrings
  /\ \E k \in DOMAIN csource_metadata_modules :
        ~ExposesProbe(csource_metadata_modules[k])
  /\ \E k \in DOMAIN csource_metadata_modules :
        LET m == csource_metadata_modules[k] IN ExposesProbe(m) /\ m.type_key = "llvm"

\* The source wrapper of the returned tree.
SourceWrapper == IF ret.cls = "CSourceMetadataModuleNode" THEN ret ELSE ret.imports[1]

\* C2: in the tree CreateMetadataModule returns, the source wrapper imports
\* exactly the source-group artifacts in input order; with an empty binary
\* group it is the root; otherwise the root is the binary metadata wrapper,
\* importing the source wrapper first and then the binary-group artifacts in
\* input order.  Every input artifact occurs once in the tree.
C2_TreeShape ==
  (pc = "returned" /\ ViaCreateMetadataModule) =>
    LET srcGroup == SelectSeq(modules, SourceByRule)
        binGroup == SelectSeq(modules, BinaryByRule)
    IN  /\ binGroup = << >> =>
              /\ ret.cls = "CSourceMetadataModuleNode"
              /\ ret.imports = srcGroup
        /\ binGroup # << >> =>
              /\ ret.cls = "MetadataModuleNode"
              /\ Head(ret.imports).cls = "CSourceMetadataModuleNode"
              /\ Head(ret.imports).imports = srcGroup
              /\ Tail(ret.imports) = binGroup
        /\ \A k \in DOMAIN modules :
              Occurrences(SourceWrapper.imports, k)
                + (IF ret.cls = "MetadataModuleNode"
                     THEN Occurrences(Tail(ret.imports), k) ELSE 0) = 1

\* A returned tree over a binary, a source and a binary artifact, in that
\* input order.
C2_Witness ==
  /\ pc = "returned" /\ ViaCreateMetadataModule
  /\ ret.cls = "MetadataModuleNode"
  /\ Len(ret.imports) = 3
  /\ ret.imports[2].addr = 1 /\ ret.imports[3].addr = 3
  /\ Len(ret.imports[1].imports) = 1 /\ ret.imports[1].imports[1].addr = 2

\* C3: when two input artifacts report the same exported symbol, a finished
\* call of CreateMetadataModule has aborted with the duplicate-symbol error
\* and returned nothing.
C3_DuplicateSymbolAborts ==
  (ViaCreateMetadataModule /\ Finished /\ DuplicateSymbols) =>
     (pc = "aborted" /\ err = DuplicatedSymbol /\ ret = NoModule)

C5_NoOtherFailure ==
  pc = "aborted" => DuplicateSymbols

\* The end-to-end example: A (k1, no constants, "c") then B (k2, ["w0"], "c").
ExampleA == CSourceModuleCreate(Text("int add_1();"), "c", << "add_1" >>, "k1", NoStrings)
ExampleB == CSourceModuleCreate(Text("int conv_1();"), "c", << "conv_1" >>, "k2", << "w0" >>)
ExampleInput ==
  /\ Len(modules) = 2
  /\ [modules[1] EXCEPT !.addr = 0] = ExampleA
  /\ [modules[2] EXCEPT !.addr = 0] = ExampleB

\* C6 as stated: in the example the map of the returned binary wrapper is
\* {"k2": ["w0"]}.
C6_ExampleMapOnlyK2 ==
  (pc = "returned" /\ ViaCreateMetadataModule /\ ExampleInput) =>
     ret.sym_metadata = [s \in {"k2"} |-> << "w0" >>]

\* C6, amended: in the example the map of the returned binary wrapper is
\* {"k1": [], "k2": ["w0"]}: it has an entry for every probed artifact.
C6_ExampleMapBoth ==
  (pc = "returned" /\ ViaCreateMetadataModule /\ ExampleInput) =>
     /\ ret.cls = "MetadataModuleNode"
     /\ ret.sym_metadata = [s \in {"k1", "k2"} |-> IF s = "k1" THEN NoStrings ELSE << "w0" >>]

\* The example has been aggregated.
C6_Witness ==
  pc = "returned" /\ ViaCreateMetadataModule /\ ExampleInput /\ ret.cls = "MetadataModuleNode"

\* The list CreateCSourceMetadataModule was called on.
WrappedList ==
  IF ViaCreateMetadataModule THEN SelectSeq(modules, SourceByRule) ELSE modules

\* What the k-th wrapped artifact contributes to the collected names.
Contribution(k) ==
  IF ExposesFuncNames(WrappedList[k]) THEN WrappedList[k].func_names ELSE NoStrings

\* Where the k-th contribution starts in the collected list, less one.
Offset[k \in 0..MaxMods + 1] ==
  IF k = 0 \/ k > Len(WrappedList) THEN 0 ELSE Offset[k - 1] + Len(Contribution(k))

Positions(text, kind) == { q \in DOMAIN text : text[q].kind = kind }
IsExternDecl(c) == c.kind = ExternDecl
IsFuncArrayEntry(c) == c.kind = FuncArrayEntry
NamesOf(chunks) == [q \in DOMAIN chunks |-> chunks[q].arg[1]]

\* C7: the names the source wrapper holds are the function names of the
\* wrapped artifacts that expose get_func_names, concatenated in input order;
\* in system-library mode with a non-empty list the text has one extern
\* declaration and one array entry per name, both in that order, the
\* declarations before the array and the array before the registry record.
C7_FunctionOrder ==
  pc = "returned" =>
    LET names == SourceWrapper.func_names
        text == SourceWrapper.code
        n == Len(WrappedList)
    IN  /\ Len(names) = Offset[n]
        /\ \A k \in 1..n : \A j \in 1..Len(Contribution(k)) :
              names[Offset[k - 1] + j] = Contribution(k)[j]
        /\ (target = "true" /\ names # NoStrings) =>
              /\ NamesOf(SelectSeq(text, IsExternDecl)) = names
              /\ NamesOf(SelectSeq(text, IsFuncArrayEntry)) = names
              /\ Cardinality(Positions(text, FuncArrayOpen)) = 1
              /\ Cardinality(Positions(text, FuncRegistry)) = 1
              /\ \A e \in Positions(text, ExternDecl), o \in Positions(text, FuncArrayOpen),
                    a \in Positions(text, FuncArrayEntry), r \in Positions(text, FuncRegistry) :
                    e < o /\ o < a /\ a < r

\* A system-library wrapper over three names from two artifacts, with an
\* artifact that contributes nothing between them.
C7_Witness ==
  /\ pc = "returned" /\ target = "true"
  /\ SourceWrapper.func_names = << "add_1", "conv_1", "mul_1" >>
  /\ Len(SourceWrapper.imports) = 3
  /\ ~ExposesFuncNames(SourceWrapper.imports[2])

\* C8: unless the system-lib flag is true and names were collected, the text
\* of the source wrapper is the terminator alone; the registry and the
\* system-library block are there only when the flag is true and the list
\* non-empty; the text always ends with the terminator.
C8_TerminatorOnly ==
  pc = "returned" =>
    LET names == SourceWrapper.func_names
        text == SourceWrapper.code
        full == target = "true" /\ names # NoStrings
    IN  /\ ~full => text = << Chunk(Terminator, NoStrings) >>
        /\ (Positions(text, FuncRegistry) # {}) <=> full
        /\ (Positions(text, SystemLibModule) # {}) <=> full
        /\ (Positions(text, SystemLibEntryPoint) # {}) <=> full
        /\ text # EmptyText
        /\ text[Len(text)] = Chunk(Terminator, NoStrings)

\* The flag is unset although names were collected: the terminator alone.
C8_Witness ==
  /\ pc = "returned" /\ target = "unset"
  /\ SourceWrapper.func_names # NoStrings
  /\ SourceWrapper.code = << Chunk(Terminator, NoStrings) >>

\* ------------------------------------------------------ SaveToFile properties
\* The number of writes made before the k-th call.
WritesBefore[k \in 1..MaxSaves + 1] ==
  IF k = 1 \/ k > Len(save) + 1 THEN 0 ELSE WritesBefore[k - 1] + save[k - 1].nwrites

\* The writes of the k-th call, in order.
WritesOf(k) == SubSeq(fs, WritesBefore[k] + 1, WritesBefore[k] + save[k].nwrites)

\* The format the k-th call's arguments resolve to.
Resolved(k) == GetFileFormat(save[k].file_name, save[k].format)
IsDeviceLeaf(node) == node.cls = "DeviceSourceModuleNode"
Sidecar(k) ==
  Write(GetMetaFilePath(save[k].file_name), << Chunk("tvm_meta", save[k].node.func_names) >>)
Payload(k) == Write(save[k].file_name, save[k].node.code)

\* C9: a SaveToFile call whose resolved format is neither "cc" nor the
\* format the node declares fails with the format-mismatch error and writes
\* no file; the files are those the other calls wrote.
C9_FormatMismatchWritesNothing ==
  /\ Len(fs) = WritesBefore[Len(save) + 1]
  /\ \A k \in DOMAIN save :
       (Resolved(k) # "cc" /\ Resolved(k) # save[k].node.fmt) =>
          (save[k].status = FormatMismatch /\ WritesOf(k) = << >>)

\* After a file was saved, a node declared "cc" was saved with format "bin":
\* the call failed and the files are as before.
C9_Witness ==
  /\ Len(save) = 2
  /\ save[1].status = "ok" /\ save[1].nwrites > 0
  /\ save[2].node.fmt = "cc" /\ save[2].format = "bin"
  /\ save[2].status = FormatMismatch
  /\ fs = WritesOf(1)

====
